---------------------------- MODULE Spec2Model ----------------------------
(***************************************************************************)
(* A model of the bike-gear storefront back end: the cart, the cart-to-    *)
(* order transaction, order cancellation, the dashboard's order status     *)
(* update, Payment.mark_as_paid and the default flags of addresses.        *)
(*                                                                         *)
(* The store is a relational database at READ COMMITTED isolation: a       *)
(* statement reads the committed rows, the writes of a transaction         *)
(* (transaction.atomic) are kept in the request until it commits, and the  *)
(* last commit of a row wins.  A request that takes several statements is  *)
(* split where another request's commit can fall between two of them.      *)
(***************************************************************************)
EXTENDS Integers, Sequences, FiniteSets, TLC

VARIABLES
    stock,      \* ProductVariant.stock / Product.stock, by target
    carts,      \* the owners that have a Cart row
    cartItems,  \* CartItem rows: owner -> target -> [qty, snap]; qty = 0: no row
    orders,     \* Order rows by id, each with its OrderItem rows
    orderSeq,   \* the last id the orders table's sequence handed out
    payments,   \* Payment rows by order id
    addresses,  \* Address rows, by id (the position in the sequence)
    req,        \* the requests in flight, one per worker
    resp,       \* the response of the request that ended last
    nreq,       \* the number of requests received
    catalog,    \* price and sale_price of each target
    tokens,     \* PasswordResetToken rows, by id (the position in the sequence)
    password,   \* the password of each user
    now,        \* the clock, in hours
    mail,       \* the outbound mail service: "up" or "down"
    authReq,    \* the reset-password requests in flight, one per worker
    issued,     \* the order numbers of the committed orders, in commit order
    cartRows,   \* the number of Cart rows of each owner
    categories  \* the parent of each Category row

vars == <<stock, carts, cartItems, orders, orderSeq, payments, addresses,
          req, resp, nreq, catalog, tokens, password, now, mail, authReq,
          issued, cartRows, categories>>

\* What the order, cart and address views never write.
accounts == <<tokens, password, now, mail, authReq>>

aux == <<catalog, accounts, issued, cartRows, categories>>

db == <<stock, carts, cartRows, cartItems, orders, orderSeq, payments, addresses>>

-----------------------------------------------------------------------------
(* Bounds of the model *)

InitStock == 2
MaxQty == 2
MaxRequests == 4

-----------------------------------------------------------------------------
(* The catalog: one variant (of a product with variants) and one base      *)
(* product without variants.                                               *)

Targets == {"v1", "p2", "p3"}

\* The targets customers put in carts that they check out; p3 is only
\* ever in carts that are merged.
OrderTargets == {"v1", "p2"}

IsVariant(t) == t = "v1"

Price == [v1 |-> 100, p2 |-> 50, p3 |-> 50]

\* sale_price is NULL
NoSalePrice == -1

SalePrice == [v1 |-> 80, p2 |-> NoSalePrice, p3 |-> NoSalePrice]

\* ProductVariant.sku, or "PROD-<id>" for a base product
Sku == [v1 |-> "SKU-V1", p2 |-> "PROD-2", p3 |-> "PROD-3"]

\* ProductVariant.get_attributes_display(), or "" for a base product
Attributes == [v1 |-> "Red / M", p2 |-> "", p3 |-> ""]

\* A reference to a row that was deleted (SET_NULL)
Null == "-"

InitCatalog ==
    [t \in Targets |->
        [price |-> Price[t], sale_price |-> SalePrice[t],
         title |-> "Bike part", exists |-> TRUE]]

\* Python's truth value of a nullable Decimal: neither None nor 0
Truthy(d) == d # NoSalePrice /\ d # 0

\* AddToCartView.post: sale_price if sale_price else price
EffectivePrice(t) ==
    IF Truthy(catalog[t].sale_price) THEN catalog[t].sale_price ELSE catalog[t].price

Users == {"u1", "u2"}

Sessions == {"s1"}

Actors == {"u1", "s1"}

IsAuthenticated(a) == a \in Users

Workers == {"r1", "r2"}

STATUS_CHOICES == {"pending", "processing", "shipped", "delivered", "cancelled"}

PAYMENT_STATUS_CHOICES == {"unpaid", "paid", "failed", "refunded"}

ShippingDhaka == 60

ShippingOutside == 120

NoItem == [qty |-> 0, snap |-> 0, title |-> "-"]

NoCalc ==
    [sub |-> 0, disc |-> 0, ship |-> 0, total |-> 0, given |-> 0, city |-> <<>>]

IdleReq ==
    [pc |-> "idle", op |-> "-", actor |-> "-",
     newAddrs |-> <<>>, bill |-> 0, ship |-> 0, calc |-> NoCalc,
     oid |-> 0, number |-> 0, items |-> {}, todo |-> {}, stockW |-> <<>>]

NoResp == [op |-> "-", actor |-> "-", code |-> 0, why |-> "-"]

Response(op, a, code, why) == [op |-> op, actor |-> a, code |-> code, why |-> why]

\* The rows of the store (the sequence orderSeq is not a row).
rows == <<stock, carts, cartItems, orders, payments, addresses>>

-----------------------------------------------------------------------------
(* Address rows and the address inputs of create-order *)

\* City names, as the sequences of their characters.
Dhaka == <<"D", "h", "a", "k", "a">>

Khulna == <<"K", "h", "u", "l", "n", "a">>

DhakaLower == <<"d", "h", "a", "k", "a">>

DhakaPadded == <<" ", "D", "H", "A", "K", "A", " ", "\t">>

DhakaSplit == <<"D", "h", "a", " ", "k", "a">>

DhakaNorth == <<"D", "h", "a", "k", "a", " ", "N">>

NoCity == <<>>

\* The characters str.strip() removes, of those the model uses.
Whitespace == {" ", "\t"}

RECURSIVE LStrip(_)
LStrip(s) ==
    IF s # <<>> /\ Head(s) \in Whitespace THEN LStrip(Tail(s)) ELSE s

RECURSIVE RStrip(_)
RStrip(s) ==
    IF s # <<>> /\ s[Len(s)] \in Whitespace
    THEN RStrip(SubSeq(s, 1, Len(s) - 1))
    ELSE s

\* str.strip()
Strip(s) == RStrip(LStrip(s))

\* The capital letters of the model's city names and their small letters.
Capitals == [D |-> "d", H |-> "h", A |-> "a", K |-> "k", N |-> "n"]

LowerMutantKeepsCase(s) == s

\* str.lower()
Lower(s) ==
    [i \in DOMAIN s |-> IF s[i] \in DOMAIN Capitals THEN Capitals[s[i]] ELSE s[i]]

Address(u, ty, city, db_, ds) ==
    [user |-> u, address_type |-> ty, city |-> city,
     is_default_billing |-> db_, is_default_shipping |-> ds]

\* Before any order: u1 owns address 1, u2 owns address 2.
SeedAddresses ==
    << Address("u1", "shipping", Dhaka, FALSE, FALSE),
       Address("u2", "shipping", Khulna, FALSE, FALSE) >>

\* billing_address_id / guest_billing_address of a request (id 0: absent)
NoAddr == [id |-> 0, inline |-> FALSE, city |-> NoCity]

ById(id) == [id |-> id, inline |-> FALSE, city |-> NoCity]

Inline(city) == [id |-> 0, inline |-> TRUE, city |-> city]

\* The requests the model sends to create-order: with an address of the
\* user, with inline addresses, with an address missing, and with the id of
\* another user's address after an inline billing address; the shipping
\* cost and the discount given or left out.
OrderInputs ==
    { [bill |-> ById(1), ship |-> ById(1), cost |-> 0, disc |-> 0],
      [bill |-> ById(1), ship |-> ById(1), cost |-> 5, disc |-> 10],
      [bill |-> Inline(Khulna), ship |-> Inline(Khulna), cost |-> 0, disc |-> 10],
      [bill |-> Inline(Khulna), ship |-> ById(2), cost |-> 0, disc |-> 0],
      [bill |-> NoAddr, ship |-> ById(1), cost |-> 0, disc |-> 0] }

-----------------------------------------------------------------------------
(* Cart *)

EmptyCart == [t \in Targets |-> NoItem]

CartTargets(a) == {t \in Targets : cartItems[a][t].qty > 0}

ItemTotalMutantIgnoresQuantity(it) == it.snap

\* CartItem.get_total
ItemTotal(it) == it.snap * it.qty

RECURSIVE SumItemTotals(_, _)
SumItemTotals(a, S) ==
    IF S = {} THEN 0
    ELSE LET t == CHOOSE y \in S : TRUE
         IN ItemTotal(cartItems[a][t]) + SumItemTotals(a, S \ {t})

\* Cart.get_subtotal
CartSubtotal(a) == SumItemTotals(a, CartTargets(a))

\* AddToCartSerializer.validate: the target is active and has the quantity
AddToCartSerializerValid(t, q) == catalog[t].exists /\ q <= stock[t]

\* The Cart rows after a request that found or made the one cart of each
\* owner in `owners` and deleted the cart of every other.
RowsOf(owners, n) ==
    [x \in Actors |-> IF x \notin owners THEN 0
                      ELSE IF n[x] = 0 THEN 1 ELSE n[x]]

\* AddToCartView.post, one request of actor a for quantity q of target t
AddToCart(a, t, q) ==
    /\ UNCHANGED <<catalog, accounts, issued, categories>>
    /\ nreq < MaxRequests
    /\ nreq' = nreq + 1
    /\ UNCHANGED <<stock, orders, orderSeq, payments, addresses, req>>
    /\ IF ~AddToCartSerializerValid(t, q)
       THEN /\ resp' = Response("add", a, 400, "invalid")
            /\ UNCHANGED <<carts, cartItems>>
       ELSE IF q > stock[t]
       THEN /\ resp' = Response("add", a, 400, "stock")
            /\ UNCHANGED <<carts, cartItems>>
       ELSE /\ carts' = carts \cup {a}
            /\ IF cartItems[a][t].qty = 0
               THEN /\ cartItems' = [cartItems EXCEPT ![a][t] =
                                       [qty |-> q, snap |-> EffectivePrice(t),
                                        title |-> catalog[t].title]]
                    /\ resp' = Response("add", a, 201, "created")
               ELSE IF cartItems[a][t].qty + q > stock[t]
               THEN /\ resp' = Response("add", a, 400, "stock")
                    /\ UNCHANGED cartItems
               ELSE /\ cartItems' = [cartItems EXCEPT ![a][t].qty = @ + q,
                                                       ![a][t].title = catalog[t].title]
                    /\ resp' = Response("add", a, 201, "created")
    /\ cartRows' = RowsOf(carts', cartRows)

-----------------------------------------------------------------------------
(* Transactions *)

\* A worker takes a request when every worker before it is busy.
Free(r) ==
    /\ req[r].pc = "idle"
    /\ r = "r2" => req["r1"].pc # "idle"

Written(w, t) == IF t \in DOMAIN w.stockW THEN w.stockW[t] ELSE stock[t]

\* The id a row of the request gets: an Address the request made is
\* -1 or -2 until the commit numbers it.
AddressId(ref) == IF ref < 0 THEN Len(addresses) - ref ELSE ref

\* The Order row of the request.  `restored` is no column of the row: it
\* records, for each target, how much the commits of cancel-order requests
\* for this order have added to the target's stock.
OrderRow(w) ==
    [owner |-> w.actor, order_number |-> w.number,
     status |-> "pending", payment_status |-> "unpaid",
     billing_address |-> AddressId(w.bill),
     shipping_address |-> AddressId(w.ship),
     subtotal |-> w.calc.sub, discount |-> w.calc.disc,
     shipping_cost |-> w.calc.ship, total_price |-> w.calc.total,
     items |-> w.items,
     restored |-> [t \in Targets |-> 0]]

\* The rows a create-order transaction has written so far, made visible.
ApplyCreateWrites(w) ==
    /\ addresses' = addresses \o w.newAddrs
    /\ stock' = [t \in Targets |-> Written(w, t)]
    /\ orders' = IF w.oid = 0 THEN orders ELSE (w.oid :> OrderRow(w)) @@ orders

\* Leaving `with transaction.atomic()` by an exception: nothing is kept.
RollbackMutantKeepsWrites(w) ==
    /\ ApplyCreateWrites(w)
    /\ UNCHANGED <<carts, cartItems, payments>>

Rollback(w) == UNCHANGED rows

\* except Exception as e: error_response(..., status_code=500)
CreateOrderRaise(r, w, why) ==
    /\ Rollback(w)
    /\ req' = [req EXCEPT ![r] = IdleReq]
    /\ resp' = Response("create", w.actor, 500, why)

-----------------------------------------------------------------------------
(* CreateOrderView.post *)

\* CreateOrderSerializer.validate
CreateOrderSerializerValid(a, inp) ==
    IF IsAuthenticated(a)
    THEN /\ inp.bill.id # 0 \/ inp.bill.inline
         /\ inp.ship.id # 0 \/ inp.ship.inline
    ELSE inp.bill.inline /\ inp.ship.inline

InsufficientStockMutantNoCheck(a) == FALSE

\* Lines 129-131: some item of the cart asks for more than its target has
InsufficientStock(a) == \E t \in CartTargets(a) : cartItems[a][t].qty > stock[t]

\* The stock validation loop found an item: the message it builds calls
\* CartItem.get_display_name, which CartItem does not define (its method is
\* get_display_title), so the request ends in an AttributeError outside the
\* try block.
InsufficientStockResponse(a) == Response("create", a, 500, "AttributeError")

\* _get_or_create_address: [ok, ref, new, city]
GetOrCreateAddress(a, c, ty, made) ==
    IF c.id # 0 /\ IsAuthenticated(a)
    THEN IF c.id \in 1..Len(addresses) /\ addresses[c.id].user = a
         THEN [ok |-> TRUE, ref |-> c.id, new |-> <<>>, city |-> addresses[c.id].city]
         ELSE [ok |-> FALSE, ref |-> 0, new |-> <<>>, city |-> NoCity]
    ELSE IF c.inline
    THEN [ok |-> TRUE, ref |-> 0 - (made + 1),
          new |-> <<Address(a, ty, c.city, FALSE, FALSE)>>, city |-> c.city]
    ELSE [ok |-> FALSE, ref |-> 0, new |-> <<>>, city |-> NoCity]

\* _calculate_shipping_cost_from_address / _calculate_shipping_cost_from_data
CalculateShippingCost(city) ==
    IF Lower(Strip(city)) = DhakaLower THEN ShippingDhaka ELSE ShippingOutside

TotalPriceMutantAddsDiscount(subtotal, discount, shipping_cost) ==
    subtotal + discount + shipping_cost

\* total_price = subtotal - discount + shipping_cost
TotalPrice(subtotal, discount, shipping_cost) ==
    subtotal - discount + shipping_cost

\* Lines 111-180: validation, the cart lookup and the stock check, all before
\* the transaction; then, in it, the addresses, the shipping cost and the
\* totals.
CreateOrderStart(r, a, inp) ==
    LET auth == IsAuthenticated(a)
        b == GetOrCreateAddress(a, inp.bill, "billing", 0)
        s == GetOrCreateAddress(a, inp.ship, "shipping", Len(b.new))
        cost == IF inp.cost > 0 THEN inp.cost
                ELSE IF auth THEN CalculateShippingCost(s.city)
                ELSE CalculateShippingCost(inp.ship.city)
        sub == CartSubtotal(a)
        w == [IdleReq EXCEPT !.pc = "insert", !.op = "create", !.actor = a]
    IN
    /\ UNCHANGED aux
    /\ nreq < MaxRequests
    /\ Free(r)
    /\ nreq' = nreq + 1
    /\ UNCHANGED orderSeq
    /\ IF ~CreateOrderSerializerValid(a, inp)
       THEN resp' = Response("create", a, 400, "invalid") /\ UNCHANGED <<rows, req>>
       ELSE IF a \notin carts
       THEN resp' = Response("create", a, 400, "no_cart") /\ UNCHANGED <<rows, req>>
       ELSE IF CartTargets(a) = {}
       THEN resp' = Response("create", a, 400, "empty") /\ UNCHANGED <<rows, req>>
       ELSE IF InsufficientStock(a)
       THEN resp' = InsufficientStockResponse(a) /\ UNCHANGED <<rows, req>>
       ELSE IF auth /\ ~b.ok
       THEN CreateOrderRaise(r, w, "ValueError")
       ELSE IF auth /\ ~s.ok
       THEN CreateOrderRaise(r, [w EXCEPT !.newAddrs = b.new], "ValueError")
       ELSE /\ req' = [req EXCEPT ![r] =
                 [w EXCEPT !.newAddrs = IF auth THEN b.new \o s.new ELSE <<>>,
                           !.bill = IF auth THEN b.ref ELSE 0,
                           !.ship = IF auth THEN s.ref ELSE 0,
                           !.calc = [sub |-> sub, disc |-> inp.disc, ship |-> cost,
                                     total |-> TotalPrice(sub, inp.disc, cost),
                                     given |-> inp.cost,
                                     city |-> IF auth THEN s.city
                                              ELSE inp.ship.city]]]
            /\ UNCHANGED <<rows, resp>>

MaxId(S) == IF S = {} THEN 0 ELSE CHOOSE m \in S : \A x \in S : x <= m

\* Order.save: "ORD-" and one more than the highest existing order id
NextOrderNumber == MaxId(DOMAIN orders) + 1

\* Lines 183-200: the Order row (its number from the committed orders, its id
\* from the table's sequence) and the query of the cart's items that the
\* loop runs over.
CreateOrderInsert(r) ==
    LET w == req[r] IN
    /\ UNCHANGED aux
    /\ w.pc = "insert"
    /\ orderSeq' = orderSeq + 1
    /\ req' = [req EXCEPT ![r] =
          [w EXCEPT !.pc = "items", !.oid = orderSeq + 1,
                    !.number = NextOrderNumber,
                    !.todo = {[target |-> t, qty |-> cartItems[w.actor][t].qty,
                               snap |-> cartItems[w.actor][t].snap,
                               title |-> cartItems[w.actor][t].title] :
                              t \in CartTargets(w.actor)}]]
    /\ UNCHANGED <<rows, resp, nreq>>

\* ProductVariant.stock is a PositiveIntegerField (the store checks stock >= 0
\* on a write); Product.stock is an IntegerField, which the store does not
\* check.
StoreAccepts(t, value) == IsVariant(t) => value >= 0

\* Lines 200-219, one round of the loop: the OrderItem, then the target is
\* fetched and saved with its stock lowered.
ReducedMutantKeepsStock(value, quantity) == value

\* cart_item.variant.stock -= cart_item.quantity
Reduced(value, quantity) == value - quantity

CreateOrderItem(r, it) ==
    LET w == req[r]
        t == it.target
        left == Reduced(Written(w, t), it.qty)
        item == [target |-> t, product_title |-> it.title,
                 variant_sku |-> Sku[t], variant_attributes |-> Attributes[t],
                 quantity |-> it.qty, unit_price |-> it.snap,
                 subtotal |-> ItemTotal(it)]
        w2 == [w EXCEPT !.items = @ \cup {item}, !.todo = @ \ {it}]
    IN
    /\ UNCHANGED aux
    /\ w.pc = "items"
    /\ it \in w.todo
    /\ UNCHANGED <<nreq, orderSeq>>
    /\ IF ~StoreAccepts(t, left)
       THEN CreateOrderRaise(r, w2, "IntegrityError: stock")
       ELSE /\ req' = [req EXCEPT ![r] = [w2 EXCEPT !.stockW = (t :> left) @@ @]]
            /\ UNCHANGED <<rows, resp>>

\* Order.order_number is unique: the store refuses an Order whose number a
\* committed order has.
OrderNumberTakenMutantNotUnique(w) == FALSE

OrderNumberTaken(w) == \E k \in DOMAIN orders : orders[k].order_number = w.number

\* Lines 221-237: the Payment, the cart cleared, and the commit.
NewPaymentMutantPaid(w) == [amount |-> w.calc.total, success |-> TRUE]

\* Payment.objects.create(order=order, amount=total_price, success=False)
NewPayment(w) == [amount |-> w.calc.total, success |-> FALSE]

CreateOrderFinish(r) ==
    LET w == req[r] IN
    /\ UNCHANGED <<catalog, accounts, cartRows, categories>>
    /\ w.pc = "items"
    /\ w.todo = {}
    /\ UNCHANGED <<nreq, orderSeq>>
    /\ IF OrderNumberTaken(w)
       THEN CreateOrderRaise(r, w, "IntegrityError: order_number") /\ UNCHANGED issued
       ELSE /\ ApplyCreateWrites(w)
            /\ issued' = Append(issued, w.number)
            /\ payments' = (w.oid :> NewPayment(w)) @@ payments
            /\ cartItems' = [cartItems EXCEPT ![w.actor] = EmptyCart]
            /\ UNCHANGED carts
            /\ req' = [req EXCEPT ![r] = IdleReq]
            /\ resp' = Response("create", w.actor, 201, "created")

\* Any statement of the transaction may fail in the store (a lost
\* connection, a lock timeout): the except clause answers 500.
CreateOrderStoreError(r) ==
    /\ UNCHANGED aux
    /\ req[r].op = "create"
    /\ req[r].pc \in {"insert", "items"}
    /\ UNCHANGED <<nreq, orderSeq>>
    /\ CreateOrderRaise(r, req[r], "OperationalError")

-----------------------------------------------------------------------------
(* CancelOrderView.patch *)

\* Order.objects.get(order_number=..., user=...) or (..., session_key=...,
\* user__isnull=True): the ids of the orders found
FindOrderMutantAnyOwner(a, number) ==
    {k \in DOMAIN orders : orders[k].order_number = number}

FindOrder(a, number) ==
    {k \in DOMAIN orders : orders[k].order_number = number /\ orders[k].owner = a}

\* not_found_response or bad_request_response to the request of actor a to
\* cancel the order `number`
Refused(a, number, code, why) ==
    [op |-> "cancel", actor |-> a, code |-> code, why |-> why, number |-> number]

CancellableMutantAnyStatus(o) == o.payment_status # "paid"

\* Lines 339-347: the two checks that let a cancellation through
Cancellable(o) ==
    /\ o.status \notin {"shipped", "delivered", "cancelled"}
    /\ o.payment_status # "paid"

\* Lines 322-347: the order is fetched and checked, before the transaction.
CancelOrderStart(r, a, number) ==
    /\ UNCHANGED aux
    /\ nreq < MaxRequests
    /\ Free(r)
    /\ nreq' = nreq + 1
    /\ UNCHANGED db
    /\ IF FindOrder(a, number) = {}
       THEN resp' = Refused(a, number, 404, "not_found") /\ UNCHANGED req
       ELSE LET k == CHOOSE k \in FindOrder(a, number) : TRUE IN
            IF ~Cancellable(orders[k])
            THEN /\ resp' = Refused(a, number, 400,
                                IF orders[k].status \in {"shipped", "delivered", "cancelled"}
                                THEN "status" ELSE "paid")
                 /\ UNCHANGED req
            ELSE /\ req' = [req EXCEPT ![r] =
                      [IdleReq EXCEPT !.pc = "restore", !.op = "cancel",
                                      !.actor = a, !.oid = k,
                                      !.todo = orders[k].items]]
                 /\ UNCHANGED resp

RestoredMutantForgets(value, quantity) == value

\* item.variant.stock += item.quantity
Restored(value, quantity) == value + quantity

\* Lines 351-357, one round of the loop: the target is fetched and saved
\* with its stock raised.
CancelOrderRestore(r, it) ==
    LET w == req[r] IN
    /\ UNCHANGED aux
    /\ w.pc = "restore"
    /\ it \in w.todo
    /\ req' = [req EXCEPT ![r] =
          [w EXCEPT !.todo = @ \ {it},
                    !.stockW = IF it.target = Null THEN @
                               ELSE (it.target :> Restored(Written(w, it.target),
                                                           it.quantity)) @@ @]]
    /\ UNCHANGED <<rows, resp, nreq, orderSeq>>

\* Lines 360-368: order.save() writes the row with the two new values, and
\* the transaction commits.
CancelOrderFinish(r) ==
    LET w == req[r] IN
    /\ UNCHANGED aux
    /\ w.pc = "restore"
    /\ w.todo = {}
    /\ stock' = [t \in Targets |-> Written(w, t)]
    /\ orders' = [orders EXCEPT ![w.oid].status = "cancelled",
                                ![w.oid].payment_status = "failed",
                                ![w.oid].restored =
                                    [t \in Targets |-> @[t] + Written(w, t) - stock[t]]]
    /\ req' = [req EXCEPT ![r] = IdleReq]
    /\ resp' = Response("cancel", w.actor, 200, "cancelled")
    /\ UNCHANGED <<carts, cartItems, payments, addresses, nreq, orderSeq>>

\* A statement of the transaction fails in the store: the transaction is
\* rolled back and the exception leaves the view.
CancelOrderStoreError(r) ==
    /\ UNCHANGED aux
    /\ req[r].pc = "restore"
    /\ req' = [req EXCEPT ![r] = IdleReq]
    /\ resp' = Response("cancel", req[r].actor, 500, "OperationalError")
    /\ UNCHANGED <<rows, nreq, orderSeq>>

-----------------------------------------------------------------------------
(* The dashboard and the payment confirmation *)

\* dashboard order_status_update: a value outside the choices ("-") is
\* skipped, any value of the choices is written.
OrderStatusUpdate(k, st, ps) ==
    /\ UNCHANGED aux
    /\ nreq < MaxRequests
    /\ nreq' = nreq + 1
    /\ k \in DOMAIN orders
    /\ orders' = [orders EXCEPT
          ![k].status = IF st \in STATUS_CHOICES THEN st ELSE @,
          ![k].payment_status = IF ps \in PAYMENT_STATUS_CHOICES THEN ps ELSE @]
    /\ resp' = Response("dashboard", "admin", 302, "updated")
    /\ UNCHANGED <<stock, carts, cartItems, payments, addresses, orderSeq, req>>

\* Payment.mark_as_paid
MarkAsPaid(k) ==
    /\ UNCHANGED aux
    /\ nreq < MaxRequests
    /\ nreq' = nreq + 1
    /\ k \in DOMAIN payments
    /\ payments' = [payments EXCEPT ![k].success = TRUE]
    /\ orders' = [orders EXCEPT ![k].payment_status = "paid"]
    /\ resp' = Response("mark_as_paid", "admin", 200, "paid")
    /\ UNCHANGED <<stock, carts, cartItems, addresses, orderSeq, req>>

-----------------------------------------------------------------------------
(* The order system *)

NoAuthReq == [pc |-> "idle", token |-> 0, new_password |-> "-", user |-> "-"]

\* Nothing but the catalog and the users' accounts: no token, no order.
InitAux ==
    /\ catalog = InitCatalog
    /\ tokens = <<>>
    /\ password = [u \in Users |-> "initial"]
    /\ now = 0
    /\ mail = "up"
    /\ authReq = [r \in Workers |-> NoAuthReq]
    /\ issued = <<>>
    /\ cartRows = [a \in Actors |-> 0]
    /\ categories = <<>>

Init ==
    /\ stock = [t \in Targets |-> InitStock]
    /\ carts = {}
    /\ cartItems = [a \in Actors |-> EmptyCart]
    /\ orders = <<>>
    /\ orderSeq = 0
    /\ payments = <<>>
    /\ addresses = SeedAddresses
    /\ req = [r \in Workers |-> IdleReq]
    /\ resp = NoResp
    /\ nreq = 0
    /\ InitAux

\* A request arrives: it is answered at once, or a worker takes it.
Begin ==
    \/ \E a \in Actors, t \in OrderTargets, q \in 1..MaxQty : AddToCart(a, t, q)
    \/ \E r \in Workers, a \in Actors, inp \in OrderInputs : CreateOrderStart(r, a, inp)
    \/ \E r \in Workers, a \in Actors, n \in 0..MaxRequests : CancelOrderStart(r, a, n)
    \/ \E k \in DOMAIN orders, st \in STATUS_CHOICES \cup {"-"},
          ps \in PAYMENT_STATUS_CHOICES \cup {"-"} : OrderStatusUpdate(k, st, ps)
    \/ \E k \in DOMAIN payments : MarkAsPaid(k)

\* A worker runs the next statements of its request.
Continue ==
    \/ \E r \in Workers : CreateOrderInsert(r)
    \/ \E r \in Workers : \E it \in req[r].todo : CreateOrderItem(r, it)
    \/ \E r \in Workers : CreateOrderFinish(r)
    \/ \E r \in Workers : CreateOrderStoreError(r)
    \/ \E r \in Workers : \E it \in req[r].todo : CancelOrderRestore(r, it)
    \/ \E r \in Workers : CancelOrderFinish(r)
    \/ \E r \in Workers : CancelOrderStoreError(r)

Next == Begin \/ Continue

\* Requests served at the same time, their statements interleaved.
Spec == Init /\ [][Next]_vars

Quiet == \A r \in Workers : req[r].pc = "idle"

NextSeq == (Quiet /\ Begin) \/ Continue

\* Requests served one at a time, each to its end before the next arrives.
SpecSeq == Init /\ [][NextSeq]_vars

BeginCreate ==
    \/ \E a \in Actors, t \in OrderTargets, q \in 1..MaxQty : AddToCart(a, t, q)
    \/ \E r \in Workers, a \in Actors, inp \in OrderInputs : CreateOrderStart(r, a, inp)

ContinueCreate ==
    \/ \E r \in Workers : CreateOrderInsert(r)
    \/ \E r \in Workers : \E it \in req[r].todo : CreateOrderItem(r, it)
    \/ \E r \in Workers : CreateOrderFinish(r)
    \/ \E r \in Workers : CreateOrderStoreError(r)

NextCreate == BeginCreate \/ ContinueCreate

\* Customers who fill carts and place orders at the same time, and no
\* cancellation or dashboard edit.
SpecCreate == Init /\ [][NextCreate]_vars

\* The cities and the shipping costs the customers give when the model
\* looks at the shipping cost alone.
ShippingCities == {DhakaPadded, DhakaSplit, DhakaNorth}

GivenCosts == {-5, 0, 5}

\* Requests with the saved address of u1, and with an inline address in
\* each of the cities.
ShippingInputs ==
    { [bill |-> ById(1), ship |-> ById(1), cost |-> c, disc |-> 0] : c \in GivenCosts }
    \cup { [bill |-> Inline(city), ship |-> Inline(city), cost |-> c, disc |-> 0] :
              city \in ShippingCities, c \in {0, 5} }

BeginShip ==
    \/ \E a \in Actors : AddToCart(a, "v1", 1)
    \/ \E r \in Workers, a \in Actors, inp \in ShippingInputs : CreateOrderStart(r, a, inp)

NextShip == BeginShip \/ ContinueCreate

\* Customers and guests who order one item to addresses in many cities.
SpecShip == Init /\ [][NextShip]_vars

\* The staff delete an order in the admin site: the row goes, and with it
\* its items and its payment; its id is not given out again.
DeleteOrder(k) ==
    /\ k \in DOMAIN orders
    /\ orders' = [j \in DOMAIN orders \ {k} |-> orders[j]]
    /\ payments' = [j \in DOMAIN payments \ {k} |-> payments[j]]
    /\ resp' = Response("admin_delete_order", "staff", 200, "deleted")
    /\ UNCHANGED <<stock, carts, cartItems, addresses, orderSeq, req, nreq, aux>>

BeginNumbers ==
    \/ \E a \in Actors, q \in 1..MaxQty : AddToCart(a, "p2", q)
    \/ \E r \in Workers, a \in Actors, inp \in OrderInputs : CreateOrderStart(r, a, inp)
    \/ \E k \in DOMAIN orders : DeleteOrder(k)

NextNumbers == (Quiet /\ BeginNumbers) \/ ContinueCreate

\* A single writer: orders are placed and deleted one after another.
SpecNumbers == Init /\ [][NextNumbers]_vars

\* The requests of the customers: add to cart, create-order, cancel-order.
BeginOrders ==
    \/ \E a \in Actors, t \in OrderTargets, q \in 1..MaxQty : AddToCart(a, t, q)
    \/ \E r \in Workers, a \in Actors, inp \in OrderInputs : CreateOrderStart(r, a, inp)
    \/ \E r \in Workers, a \in Actors, n \in 0..MaxRequests : CancelOrderStart(r, a, n)

NextOrders == (Quiet /\ BeginOrders) \/ Continue

\* The customers' requests served one after another, the dashboard unused.
SpecOrders == Init /\ [][NextOrders]_vars

-----------------------------------------------------------------------------
(* The dashboard's product pages *)

Titles == {"Bike part", "Renamed part"}

\* What the staff type into the product form.
ProductEdits ==
    [price : {120}, sale_price : {NoSalePrice, 80, 150}, title : Titles,
     stock : {0}]

\* ProductForm.clean / ProductVariantForm.clean
ProductFormValid(e) ==
    ~(Truthy(e.price) /\ Truthy(e.sale_price) /\ e.sale_price >= e.price)

\* product_edit / variant_edit: the form's fields are saved on the row;
\* no order and no cart is written.
ProductEdit(t, e) ==
    /\ nreq < MaxRequests
    /\ nreq' = nreq + 1
    /\ catalog[t].exists
    /\ IF ProductFormValid(e)
       THEN /\ catalog' = [catalog EXCEPT ![t].price = e.price,
                                          ![t].sale_price = e.sale_price,
                                          ![t].title = e.title]
            /\ stock' = [stock EXCEPT ![t] = e.stock]
            /\ resp' = Response("product_edit", "staff", 302, "saved")
       ELSE /\ UNCHANGED <<catalog, stock>>
            /\ resp' = Response("product_edit", "staff", 200, "form_errors")
    /\ UNCHANGED <<carts, cartItems, orders, payments, addresses, orderSeq, req,
                   accounts, issued, categories, cartRows>>

SetNullMutantCascades(items, t) == {it \in items : it.target # t}

\* on_delete=SET_NULL of OrderItem.product and OrderItem.variant
SetNull(items, t) ==
    {IF it.target = t THEN [it EXCEPT !.target = Null] ELSE it : it \in items}

\* product_delete: the product goes with its variants, and the order items
\* that referred to it lose the reference. The staff delete a product that
\* is in no cart.
ProductDelete(t) ==
    /\ nreq < MaxRequests
    /\ nreq' = nreq + 1
    /\ catalog[t].exists
    /\ \A a \in Actors : cartItems[a][t].qty = 0
    /\ catalog' = [catalog EXCEPT ![t].exists = FALSE]
    /\ orders' = [k \in DOMAIN orders |->
                     [orders[k] EXCEPT !.items = SetNull(@, t)]]
    /\ resp' = Response("product_delete", "staff", 302, "deleted")
    /\ UNCHANGED <<stock, carts, cartItems, payments, addresses, orderSeq, req,
                   accounts, issued, categories, cartRows>>

BeginCatalog ==
    \/ \E a \in Actors, t \in OrderTargets, q \in 1..MaxQty : AddToCart(a, t, q)
    \/ \E r \in Workers, a \in Actors, inp \in OrderInputs : CreateOrderStart(r, a, inp)
    \/ \E r \in Workers, a \in Actors, n \in 0..MaxRequests : CancelOrderStart(r, a, n)
    \/ \E t \in OrderTargets, e \in ProductEdits : ProductEdit(t, e)
    \/ \E t \in OrderTargets : ProductDelete(t)

NextCatalog == (Quiet /\ BeginCatalog) \/ Continue

\* Customers order and cancel while the staff edit and delete products,
\* one request at a time.
SpecCatalog == Init /\ [][NextCatalog]_vars

-----------------------------------------------------------------------------
(* Addresses: Address.save and AddressSerializer, under autocommit *)

MaxAddresses == 3

AddressTypes == {"billing", "shipping"}

\* filter(user=u, address_type='billing', is_default_billing=True)
\*   .exclude(pk=i).update(is_default_billing=False)
UnsetDefaultBilling(rs, u, i) ==
    [j \in DOMAIN rs |->
       IF /\ j # i
          /\ rs[j].user = u
          /\ rs[j].address_type = "billing"
          /\ rs[j].is_default_billing
       THEN [rs[j] EXCEPT !.is_default_billing = FALSE]
       ELSE rs[j]]

\* filter(user=u, address_type='shipping', is_default_shipping=True)
\*   .exclude(pk=i).update(is_default_shipping=False)
UnsetDefaultShipping(rs, u, i) ==
    [j \in DOMAIN rs |->
       IF /\ j # i
          /\ rs[j].user = u
          /\ rs[j].address_type = "shipping"
          /\ rs[j].is_default_shipping
       THEN [rs[j] EXCEPT !.is_default_shipping = FALSE]
       ELSE rs[j]]

\* The two updates a save or a serializer runs before the row is written
\* (i = 0: the row has no pk yet).
UnsetOthers(rs, row, i, billing, shipping) ==
    LET b == IF billing THEN UnsetDefaultBilling(rs, row.user, i) ELSE rs
    IN IF shipping THEN UnsetDefaultShipping(b, row.user, i) ELSE b

\* Meta.constraints: unique (user, address_type, is_default_billing) where
\* is_default_billing, and the same for is_default_shipping
UniqueDefaults(rs) ==
    \A i, j \in DOMAIN rs :
       (i # j /\ rs[i].user = rs[j].user /\ rs[i].address_type = rs[j].address_type)
       => /\ ~(rs[i].is_default_billing /\ rs[j].is_default_billing)
          /\ ~(rs[i].is_default_shipping /\ rs[j].is_default_shipping)

\* Address.save of `row` as row i (a new row: i = Len + 1): the other
\* defaults are unset and committed, then the store takes the row or
\* refuses it.
AddressSave(rs, row, i, op) ==
    LET cleared == UnsetOthers(rs, row, IF i \in DOMAIN rs THEN i ELSE 0,
                               row.is_default_billing, row.is_default_shipping)
        written == IF i \in DOMAIN rs THEN [cleared EXCEPT ![i] = row]
                   ELSE Append(cleared, row)
    IN IF UniqueDefaults(written)
       THEN /\ addresses' = written
            /\ resp' = Response(op, row.user, IF i \in DOMAIN rs THEN 200 ELSE 201, "saved")
       ELSE /\ addresses' = cleared
            /\ resp' = Response(op, row.user, 500, "IntegrityError")

\* AddressSerializer.create (POST /auth/addresses/)
AddressCreate(u, ty, billing, shipping) ==
    LET row == Address(u, ty, Dhaka, billing, shipping)
        pre == UnsetOthers(addresses, row, 0, billing, shipping)
    IN
    /\ UNCHANGED aux
    /\ Len(addresses) < MaxAddresses
    /\ AddressSave(pre, row, Len(addresses) + 1, "address_create")
    /\ UNCHANGED <<stock, carts, cartItems, orders, orderSeq, payments, req, nreq>>

\* A field of an update request: "-" leaves it, "yes"/"no" set a flag.
FlagInputs == {"-", "yes", "no"}

Flag(input, old) == IF input = "-" THEN old ELSE input = "yes"

\* AddressSerializer.update (PUT/PATCH /auth/addresses/{id}) by the owner
AddressUpdate(i, ty, billing, shipping) ==
    LET old == addresses[i]
        row == [old EXCEPT
                  !.address_type = IF ty = "-" THEN @ ELSE ty,
                  !.is_default_billing = Flag(billing, @),
                  !.is_default_shipping = Flag(shipping, @)]
        pre == UnsetOthers(addresses, old, i,
                           billing = "yes" /\ ~old.is_default_billing,
                           shipping = "yes" /\ ~old.is_default_shipping)
    IN
    /\ UNCHANGED aux
    /\ AddressSave(pre, row, i, "address_update")
    /\ UNCHANGED <<stock, carts, cartItems, orders, orderSeq, payments, req, nreq>>

InitAddr ==
    /\ stock = [t \in Targets |-> InitStock]
    /\ carts = {}
    /\ cartItems = [a \in Actors |-> EmptyCart]
    /\ orders = <<>>
    /\ orderSeq = 0
    /\ payments = <<>>
    /\ addresses = <<>>
    /\ req = [r \in Workers |-> IdleReq]
    /\ resp = NoResp
    /\ nreq = 0
    /\ InitAux

NextAddr ==
    \/ \E u \in Users, ty \in AddressTypes, b \in BOOLEAN, s \in BOOLEAN :
          AddressCreate(u, ty, b, s)
    \/ \E i \in DOMAIN addresses, ty \in AddressTypes \cup {"-"},
          b \in FlagInputs, s \in FlagInputs :
          AddressUpdate(i, ty, b, s)

\* The addresses of the users, created and edited through the API.
SpecAddr == InitAddr /\ [][NextAddr]_vars

-----------------------------------------------------------------------------
(* The cart views other than add, the savings, and the catalog's prices *)

GetStockMutantOneMore(t) == stock[t] + 1

\* CartItem.get_stock
GetStock(t) == stock[t]

\* UpdateCartItemView.patch: the item of actor a for target t gets quantity q
UpdateCartItem(a, t, q) ==
    /\ UNCHANGED aux
    /\ nreq < MaxRequests
    /\ nreq' = nreq + 1
    /\ UNCHANGED <<stock, carts, orders, orderSeq, payments, addresses, req>>
    /\ IF q < 1
       THEN /\ resp' = Response("update", a, 400, "invalid")
            /\ UNCHANGED cartItems
       ELSE IF cartItems[a][t].qty = 0
       THEN /\ resp' = Response("update", a, 404, "not_found")
            /\ UNCHANGED cartItems
       ELSE IF q > GetStock(t)
       THEN /\ resp' = Response("update", a, 400, "stock")
            /\ UNCHANGED cartItems
       ELSE /\ cartItems' = [cartItems EXCEPT ![a][t].qty = q,
                                               ![a][t].title = catalog[t].title]
            /\ resp' = Response("update", a, 200, "updated")

\* UpdateCartItemView.delete
RemoveCartItem(a, t) ==
    /\ UNCHANGED aux
    /\ nreq < MaxRequests
    /\ nreq' = nreq + 1
    /\ UNCHANGED <<stock, carts, orders, orderSeq, payments, addresses, req>>
    /\ IF cartItems[a][t].qty = 0
       THEN /\ resp' = Response("remove", a, 404, "not_found")
            /\ UNCHANGED cartItems
       ELSE /\ cartItems' = [cartItems EXCEPT ![a][t] = NoItem]
            /\ resp' = Response("remove", a, 200, "removed")

\* ClearCartView.delete: the items go, the Cart row stays
ClearCart(a) ==
    /\ UNCHANGED aux
    /\ nreq < MaxRequests
    /\ nreq' = nreq + 1
    /\ UNCHANGED <<stock, carts, orders, orderSeq, payments, addresses, req>>
    /\ IF a \in carts
       THEN /\ cartItems' = [cartItems EXCEPT ![a] = EmptyCart]
            /\ resp' = Response("clear", a, 200, "cleared")
       ELSE /\ UNCHANGED cartItems
            /\ resp' = Response("clear", a, 200, "already_empty")

\* The orders in which the rows of the carts can have been added (added_at)
AddedOrders ==
    {o \in [1..Cardinality(Targets) -> Targets] :
        \A i, j \in DOMAIN o : i # j => o[i] # o[j]}

Position(o, t) == CHOOSE i \in DOMAIN o : o[i] = t

\* user_cart.items.filter(variant=guest_item.variant).first(): the item of
\* the variant; for an item of a base product, whose variant is NULL, the
\* oldest item of the user cart whose variant is NULL.  "-": none.
UserItemFor(user, t, o) ==
    LET same == IF IsVariant(t)
                THEN {x \in {t} : user[x].qty > 0}
                ELSE {x \in Targets : ~IsVariant(x) /\ user[x].qty > 0}
    IN IF same = {} THEN "-"
       ELSE CHOOSE x \in same : \A y \in same : Position(o, x) <= Position(o, y)

\* The loop of _merge_carts over the guest items `todo`, oldest first
RECURSIVE MergeItems(_, _, _, _)
MergeItems(user, guest, todo, o) ==
    IF todo = <<>> THEN user
    ELSE LET t == Head(todo)
             m == UserItemFor(user, t, o)
             next == IF m = "-"
                     THEN [user EXCEPT ![t] = guest[t], ![t].title = catalog[t].title]
                     ELSE [user EXCEPT ![m].qty = @ + guest[t].qty,
                                       ![m].title = catalog[m].title]
         IN MergeItems(next, guest, Tail(todo), o)

GuestItems(guest, o) ==
    LET InCart(t) == guest[t].qty > 0 IN SelectSeq(o, InCart)

\* CartView.get of user u whose session is s: the user's cart is made if
\* there is none, and the guest cart of the session is merged into it.
GetCart(u, s, o) ==
    /\ UNCHANGED <<catalog, accounts, issued, categories>>
    /\ nreq < MaxRequests
    /\ nreq' = nreq + 1
    /\ UNCHANGED <<stock, orders, orderSeq, payments, addresses, req>>
    /\ IF s \in carts
       THEN /\ carts' = (carts \cup {u}) \ {s}
            /\ cartItems' = [cartItems EXCEPT
                  ![u] = MergeItems(cartItems[u], cartItems[s],
                                    GuestItems(cartItems[s], o), o),
                  ![s] = EmptyCart]
            /\ resp' = Response("cart", u, 200, "merged")
       ELSE /\ carts' = carts \cup {u}
            /\ UNCHANGED cartItems
            /\ resp' = Response("cart", u, 200, "cart")
    /\ cartRows' = RowsOf(carts', cartRows)

\* CartItem.get_savings
GetSavings(it, t) ==
    IF IsVariant(t) /\ catalog[t].sale_price # NoSalePrice
    THEN (catalog[t].price - catalog[t].sale_price) * it.qty
    ELSE IF ~IsVariant(t) /\ Truthy(catalog[t].sale_price)
    THEN (catalog[t].price - catalog[t].sale_price) * it.qty
    ELSE 0

RECURSIVE SumSavings(_, _)
SumSavings(a, S) ==
    IF S = {} THEN 0
    ELSE LET t == CHOOSE y \in S : TRUE
         IN GetSavings(cartItems[a][t], t) + SumSavings(a, S \ {t})

\* Cart.get_total_savings
GetTotalSavings(a) == SumSavings(a, CartTargets(a))

\* The sale prices the staff give a target in the admin site, whose form
\* takes any sale_price >= 0 or none.
SalePrices == {NoSalePrice, 40, 80}

AdminSaveSalePrice(t, sale) ==
    /\ nreq < MaxRequests
    /\ nreq' = nreq + 1
    /\ catalog' = [catalog EXCEPT ![t].sale_price = sale]
    /\ resp' = Response("admin_price", "staff", 200, "saved")
    /\ UNCHANGED <<rows, orderSeq, req, accounts, issued, categories, cartRows>>

NextCart ==
    \/ \E a \in Actors, t \in Targets, q \in 1..(MaxQty + 1) : AddToCart(a, t, q)
    \/ \E a \in Actors, t \in Targets, q \in 0..(MaxQty + 1) : UpdateCartItem(a, t, q)
    \/ \E a \in Actors, t \in Targets : RemoveCartItem(a, t)
    \/ \E a \in Actors : ClearCart(a)
    \/ \E o \in AddedOrders : GetCart("u1", "s1", o)
    \/ \E t \in Targets, sale \in SalePrices : AdminSaveSalePrice(t, sale)

\* Customers at their carts, a guest who logs in, and the staff at the
\* prices; no order is placed.
SpecCart == Init /\ [][NextCart]_vars

-----------------------------------------------------------------------------
(* The Cart row of an owner, found or made *)

\* What is left of the guest cart's row after the merge deleted the first
\* one the filter found.
Deleted(n) == IF n = 0 THEN 0 ELSE n - 1

\* The rest of CartView.get once the owner's cart is in hand: the cart of
\* a user's session, if there is one, is merged and deleted; the carts here
\* hold no items.
CartViewRespond(r, a) ==
    /\ resp' = Response("cart", a, 200, "cart")
    /\ req' = [req EXCEPT ![r] = IdleReq]

\* CartView.get, Cart.objects.get_or_create: the SELECT. No row: the
\* INSERT follows. One row: it is the cart. More: MultipleObjectsReturned
\* leaves the view.
CartGetOrCreate(r, a) ==
    /\ nreq < MaxRequests
    /\ Free(r)
    /\ nreq' = nreq + 1
    /\ IF cartRows[a] = 0
       THEN /\ req' = [req EXCEPT ![r] =
                  [IdleReq EXCEPT !.pc = "cart_insert", !.op = "cart", !.actor = a]]
            /\ UNCHANGED <<resp, cartRows, carts>>
       ELSE IF cartRows[a] = 1
       THEN /\ cartRows' = IF IsAuthenticated(a)
                           THEN [cartRows EXCEPT !["s1"] = Deleted(@)]
                           ELSE cartRows
            /\ carts' = {x \in Actors : cartRows'[x] > 0}
            /\ resp' = Response("cart", a, 200, "cart")
            /\ UNCHANGED req
       ELSE /\ resp' = Response("cart", a, 500, "MultipleObjectsReturned")
            /\ UNCHANGED <<req, cartRows, carts>>
    /\ UNCHANGED <<stock, cartItems, orders, orderSeq, payments, addresses,
                   catalog, accounts, issued, categories>>

\* get_or_create's INSERT of the row that the SELECT did not find, and the
\* rest of the view.
CartInsert(r) ==
    LET a == req[r].actor
        made == [cartRows EXCEPT ![a] = @ + 1]
    IN
    /\ req[r].pc = "cart_insert"
    /\ cartRows' = IF IsAuthenticated(a)
                   THEN [made EXCEPT !["s1"] = Deleted(@)]
                   ELSE made
    /\ carts' = {x \in Actors : cartRows'[x] > 0}
    /\ CartViewRespond(r, a)
    /\ UNCHANGED <<stock, cartItems, orders, orderSeq, payments, addresses,
                   catalog, accounts, issued, categories, nreq>>

NextCartRows ==
    \/ \E r \in Workers, a \in Actors : CartGetOrCreate(r, a)
    \/ \E r \in Workers : CartInsert(r)
    \/ \E a \in Actors : ClearCart(a)

\* A user and a guest open and clear their carts, some of them at the same
\* time.
SpecCartRows == Init /\ [][NextCartRows]_vars

-----------------------------------------------------------------------------
(* SearchView.get: the limit of a search *)

\* The most rows that match a search
MaxMatches == 52

\* request.query_params.get('limit', 10): the default when there is none
DefaultLimit == 10

\* The largest limit a search is given
MaxLimit == 50

\* The numbers of rows that match a search
MatchCounts == {0, 1, 8, DefaultLimit, 12, MaxLimit, MaxMatches}

\* A query string without a limit
Missing == <<"missing">>

\* The values of the limit parameter, as the characters of the query string
LimitParams ==
    { <<"0">>, <<"1">>, <<"7">>, <<"5", "0">>, <<"5", "1">>, <<"9", "9">>,
      <<"-", "3">>, <<"+", "7">>, <<" ", "2">>, <<"1", "_", "2">>,
      <<"1", ".", "5">>, <<"a", "b">>, <<"-">>, <<>> }

DigitOf == [c \in {"0", "1", "2", "3", "4", "5", "6", "7", "8", "9"} |->
               CASE c = "0" -> 0 [] c = "1" -> 1 [] c = "2" -> 2 [] c = "3" -> 3
                 [] c = "4" -> 4 [] c = "5" -> 5 [] c = "6" -> 6 [] c = "7" -> 7
                 [] c = "8" -> 8 [] c = "9" -> 9]

\* The digits of a literal, with the underscores between two of them left out;
\* <<"x">> when an underscore is not between two digits.
RECURSIVE Ungrouped(_)
Ungrouped(s) ==
    IF s = <<>> THEN <<>>
    ELSE IF Head(s) # "_" THEN <<Head(s)>> \o Ungrouped(Tail(s))
    ELSE IF Len(s) = 1 \/ s[2] = "_" THEN <<"x">>
    ELSE Ungrouped(Tail(s))

RECURSIVE Decimal(_)
Decimal(s) ==
    IF s = <<>> THEN 0
    ELSE Decimal(SubSeq(s, 1, Len(s) - 1)) * 10 + DigitOf[s[Len(s)]]

\* int(text): surrounding whitespace is dropped, a sign may come first, and
\* what is left must be digits; anything else is a ValueError.
ParseInt(text) ==
    LET s == Strip(text)
        signed == s # <<>> /\ Head(s) \in {"+", "-"}
        body == IF signed THEN Tail(s) ELSE s
        digits == IF body # <<>> /\ Head(body) = "_" THEN <<"x">> ELSE Ungrouped(body)
    IN IF digits = <<>> \/ \E i \in 1..Len(digits) : digits[i] \notin DOMAIN DigitOf
       THEN [ok |-> FALSE, value |-> 0]
       ELSE [ok |-> TRUE,
             value |-> IF signed /\ Head(s) = "-" THEN 0 - Decimal(digits)
                       ELSE Decimal(digits)]

LimitOfMutantUnbounded(param) ==
    IF param = Missing \/ ~ParseInt(param).ok THEN DefaultLimit
    ELSE ParseInt(param).value

\* Lines 235 and 259-267: the limit the query is sliced with
LimitOf(param) ==
    IF param = Missing THEN DefaultLimit
    ELSE LET n == ParseInt(param) IN
         IF ~n.ok THEN DefaultLimit
         ELSE IF n.value < 1 THEN DefaultLimit
         ELSE IF n.value > MaxLimit THEN MaxLimit
         ELSE n.value

\* queryset[:limit], on a query that matches `matches` rows
Sliced(matches, limit) == IF matches < limit THEN matches ELSE limit

\* SearchView.get with a query and a type that are valid: the answer holds
\* the rows of the slice.
Search(a, param, matches) ==
    /\ nreq < MaxRequests
    /\ nreq' = nreq + 1
    /\ resp' = [op |-> "search", actor |-> a, code |-> 200, why |-> "results",
                limit |-> param, matches |-> matches,
                count |-> Sliced(matches, LimitOf(param))]
    /\ UNCHANGED <<db, req>>
    /\ UNCHANGED <<catalog, accounts, issued, categories>>

NextSearch ==
    \E a \in Actors, param \in LimitParams \cup {Missing}, matches \in MatchCounts :
       Search(a, param, matches)

\* Searches, one after another.
SpecSearch == Init /\ [][NextSearch]_vars

-----------------------------------------------------------------------------
(* CategoryForm: the dashboard's category pages *)

\* The categories the staff can make
CategoryIds == {"c1", "c2", "c3"}

\* CategoryForm.clean, lines 91-99: the walk from the parent chosen up the
\* parents of the store, for the category `pk` being edited.  The loop ends
\* at a category without a parent or at `pk`; `left` counts the rows not yet
\* visited, and a walk that has visited them all and goes on is in a cycle
\* and does not end.
RECURSIVE AncestorWalk(_, _, _)
AncestorWalk(current, pk, left) ==
    IF current = Null THEN "valid"
    ELSE IF current = pk THEN "circular"
    ELSE IF left = 0 THEN "endless"
    ELSE AncestorWalk(categories[current], pk, left - 1)

EditedMutantNoWalk(form) ==
    IF form.parent = Null THEN "valid"
    ELSE IF form.parent \notin DOMAIN categories \ {form.pk} THEN "invalid_choice"
    ELSE "valid"

\* The parent field of the form of an edit: the queryset leaves out the
\* category itself (lines 59-60), and a choice outside the queryset is no
\* valid choice; then clean() walks up from the parent.
Edited(form) ==
    IF form.parent = Null THEN "valid"
    ELSE IF form.parent \notin DOMAIN categories \ {form.pk} THEN "invalid_choice"
    ELSE AncestorWalk(form.parent, form.pk, Cardinality(DOMAIN categories))

\* The answer of a category page to the form it was posted
CategoryResponse(op, form, code, why) ==
    [op |-> op, actor |-> "admin", code |-> code, why |-> why,
     pk |-> form.pk, parent |-> form.parent]

\* category_add: the form has no instance, so clean() does not walk; the
\* parent is any category of the store, or none.
CategoryAdd(form) ==
    /\ nreq < MaxRequests
    /\ nreq' = nreq + 1
    /\ form.pk \notin DOMAIN categories
    /\ IF form.parent = Null \/ form.parent \in DOMAIN categories
       THEN /\ categories' = (form.pk :> form.parent) @@ categories
            /\ resp' = CategoryResponse("category_add", form, 302, "created")
       ELSE /\ UNCHANGED categories
            /\ resp' = CategoryResponse("category_add", form, 200, "invalid_choice")
    /\ UNCHANGED <<db, req, catalog, accounts, issued>>

\* category_edit: form.save() writes the parent when the form is valid; the
\* page is shown again with the errors when it is not; the request has no
\* answer when the walk of clean() does not end.
CategoryEdit(form) ==
    /\ nreq < MaxRequests
    /\ nreq' = nreq + 1
    /\ form.pk \in DOMAIN categories
    /\ LET outcome == Edited(form) IN
       /\ categories' = IF outcome = "valid"
                        THEN [categories EXCEPT ![form.pk] = form.parent]
                        ELSE categories
       /\ resp' = CategoryResponse("category_edit", form,
                                   CASE outcome = "valid" -> 302
                                     [] outcome = "endless" -> 0
                                     [] OTHER -> 200,
                                   outcome)
    /\ UNCHANGED <<db, req, catalog, accounts, issued>>

CategoryForms == [pk : CategoryIds, parent : CategoryIds \cup {Null}]

NextCategories ==
    \/ \E form \in CategoryForms : CategoryAdd(form)
    \/ \E form \in CategoryForms : CategoryEdit(form)

\* The staff add and edit categories, one request after another.
SpecCategories == Init /\ [][NextCategories]_vars

-----------------------------------------------------------------------------
(* Password reset: forgot-password and reset-password *)

\* The clock stops here, in hours.
MaxClock == 2

\* The password-reset requests received.
MaxAuthRequests == 3

\* timedelta(hours=1)
TokenLifetime == 1

\* The addresses a forgot-password request names: each user's own, and one
\* that belongs to nobody.
Emails == Users \cup {"nobody"}

\* User.objects.get(email=...): the user, or "-" on DoesNotExist.
UserByEmail(e) == IF e \in Users THEN e ELSE "-"

NewPasswords == {"pwA", "pwB"}

AuthFree(r) == authReq[r].pc = "idle" /\ nreq < MaxAuthRequests

InvalidatePreviousMutantKeeps(ts, user) == ts

\* filter(user=user, used=False).update(used=True)
InvalidatePrevious(ts, user) ==
    [i \in DOMAIN ts |->
        IF ts[i].user = user /\ ~ts[i].used
        THEN [ts[i] EXCEPT !.used = TRUE]
        ELSE ts[i]]

\* PasswordResetToken.is_valid
IsValid(tok) == ~tok.used /\ now < tok.expires_at

\* POST forgot-password: validate_email looks the user up; without a user
\* send_reset_email returns at once and the view answers 200. With a user,
\* generate_token first invalidates the user's unused tokens.
ForgotPasswordStart(r, e) ==
    /\ AuthFree(r)
    /\ IF UserByEmail(e) = "-"
       THEN /\ resp' = Response("forgot_password", e, 200, "link_sent_if_account")
            /\ nreq' = nreq + 1
            /\ UNCHANGED <<tokens, authReq>>
       ELSE /\ tokens' = InvalidatePrevious(tokens, UserByEmail(e))
            /\ authReq' = [authReq EXCEPT ![r] =
                   [NoAuthReq EXCEPT !.pc = "forgot_create", !.user = UserByEmail(e)]]
            /\ UNCHANGED <<resp, nreq>>
    /\ UNCHANGED <<db, req, catalog, issued, categories, password, now, mail>>

\* generate_token creates the new row, which expires one hour from now.
ForgotPasswordCreate(r) ==
    /\ authReq[r].pc = "forgot_create"
    /\ tokens' = Append(tokens,
           [user |-> authReq[r].user, used |-> FALSE,
            created_at |-> now, expires_at |-> now + TokenLifetime,
            resets |-> 0])
    /\ authReq' = [authReq EXCEPT ![r].pc = "forgot_send"]
    /\ UNCHANGED <<db, req, catalog, issued, categories, password, now, mail, resp, nreq>>

\* send_mail with fail_silently=False: a failure is raised again and the
\* view answers 500; the token stays.
ForgotPasswordSend(r) ==
    /\ authReq[r].pc = "forgot_send"
    /\ resp' = IF mail = "up"
               THEN Response("forgot_password", authReq[r].user, 200, "link_sent_if_account")
               ELSE Response("forgot_password", authReq[r].user, 500, "failed_to_send")
    /\ nreq' = nreq + 1
    /\ authReq' = [authReq EXCEPT ![r] = NoAuthReq]
    /\ UNCHANGED <<db, req, catalog, issued, categories, password, now, mail, tokens>>

\* POST reset-password, ResetPasswordSerializer.validate: the passwords
\* match, the token exists and is valid.
ResetPasswordStart(r, tok, pw, confirm) ==
    /\ AuthFree(r)
    /\ IF pw # confirm
       THEN /\ resp' = Response("reset_password", "-", 400, "passwords_do_not_match")
            /\ nreq' = nreq + 1
            /\ UNCHANGED authReq
       ELSE IF tok \notin DOMAIN tokens
       THEN /\ resp' = Response("reset_password", "-", 400, "invalid_token")
            /\ nreq' = nreq + 1
            /\ UNCHANGED authReq
       ELSE IF ~IsValid(tokens[tok])
       THEN /\ resp' = Response("reset_password", "-", 400, "expired_or_used")
            /\ nreq' = nreq + 1
            /\ UNCHANGED authReq
       ELSE /\ authReq' = [authReq EXCEPT ![r] =
                   [pc |-> "reset_save", token |-> tok, new_password |-> pw,
                    user |-> tokens[tok].user]]
            /\ UNCHANGED <<resp, nreq>>
    /\ UNCHANGED <<db, req, catalog, issued, categories, password, now, mail, tokens>>

\* ResetPasswordSerializer.save: set the password, mark the token used,
\* then every other unused token of the user. The field resets is not a
\* column: it counts the times the token has set the password.
ResetPasswordSave(r) ==
    /\ authReq[r].pc = "reset_save"
    /\ password' = [password EXCEPT ![authReq[r].user] = authReq[r].new_password]
    /\ tokens' = InvalidatePrevious(
                    [tokens EXCEPT ![authReq[r].token].used = TRUE,
                                   ![authReq[r].token].resets = @ + 1],
                    authReq[r].user)
    /\ resp' = Response("reset_password", authReq[r].user, 200, "password_reset")
    /\ nreq' = nreq + 1
    /\ authReq' = [authReq EXCEPT ![r] = NoAuthReq]
    /\ UNCHANGED <<db, req, catalog, issued, categories, now, mail>>

\* An hour passes.
Tick ==
    /\ now < MaxClock
    /\ now' = now + 1
    /\ UNCHANGED <<db, req, resp, nreq, catalog, issued, categories, tokens, password, mail, authReq>>

\* The mail service goes down or comes back.
MailChanges ==
    /\ mail' = IF mail = "up" THEN "down" ELSE "up"
    /\ UNCHANGED <<db, req, resp, nreq, catalog, issued, categories, tokens, password, now, authReq>>

BeginAuth ==
    \/ \E r \in Workers, e \in Emails : ForgotPasswordStart(r, e)
    \/ \E r \in Workers, tok \in 1..(Len(tokens) + 1), pw \in NewPasswords,
          confirm \in NewPasswords : ResetPasswordStart(r, tok, pw, confirm)

ContinueAuth ==
    \/ \E r \in Workers : ForgotPasswordCreate(r)
    \/ \E r \in Workers : ForgotPasswordSend(r)
    \/ \E r \in Workers : ResetPasswordSave(r)

Environment == Tick \/ MailChanges

NextAuth == BeginAuth \/ ContinueAuth \/ Environment

\* Password-reset requests of two workers, interleaved, while time passes
\* and the mail service comes and goes.
SpecAuth == Init /\ [][NextAuth]_vars

QuietAuth == \A r \in Workers : authReq[r].pc = "idle"

NextAuthSeq == (QuietAuth /\ BeginAuth) \/ ContinueAuth \/ Environment

\* The same requests served one at a time.
SpecAuthSeq == Init /\ [][NextAuthSeq]_vars

-----------------------------------------------------------------------------
(* Properties of the order system *)

\* This step is the arrival of a request `op` of actor a.
Arrives(op, a) ==
    /\ nreq' = nreq + 1
    /\ \/ req' = req /\ resp'.op = op /\ resp'.actor = a
       \/ \E r \in Workers : req[r].pc = "idle" /\ req'[r].op = op /\ req'[r].actor = a

\* This step is the arrival of a request `op` that is answered at once.
Answered(op) == nreq' = nreq + 1 /\ req' = req /\ resp'.op = op

\* This step is a step of worker r on a request `op` it has in flight.
Runs(r, op) == req[r].op = op /\ req'[r] # req[r]

\* This step ends the request `op` of worker r with the status `code`.
Ends(r, op, code) == Runs(r, op) /\ req'[r].pc = "idle" /\ resp'.code = code

\* C1: a create-order request on a cart in which some item asks for more
\* than the current stock of its target is answered with an error, no
\* transaction is begun, and no row changes: no Order, OrderItem or Payment,
\* no stock, and the cart's items as they were.
C1_InsufficientStockChangesNothing ==
    [][\A a \in Actors :
         ( /\ Arrives("create", a)
           /\ \E t \in Targets : /\ cartItems[a][t].qty > 0
                                  /\ cartItems[a][t].qty > stock[t] )
         => /\ req' = req
            /\ resp'.code >= 400
            /\ UNCHANGED rows]_vars

C1_Witness ==
    /\ resp.op = "create"
    /\ resp.why = "AttributeError"
    /\ \E t \in Targets : /\ cartItems[resp.actor][t].qty > 0
                           /\ cartItems[resp.actor][t].qty > stock[t]

\* C2: a create-order request that raises inside its transaction (an address
\* id the user does not own, a stock decrement the store refuses, any error
\* of the store) leaves every row as it is, and so did every earlier step of
\* the request: only the commit of a create-order changes rows.
C2_ExceptionRollsBack ==
    [][ /\ \A a \in Actors :
             (Arrives("create", a) /\ resp'.code = 500) => UNCHANGED rows
        /\ \A r \in Workers :
             (Runs(r, "create") /\ ~Ends(r, "create", 201)) => UNCHANGED rows ]_vars

C2_Witness ==
    /\ resp.op = "create"
    /\ resp.code = 500
    /\ resp.why = "IntegrityError: stock"
    /\ stock["v1"] = 0

OrderedQuantity(k, t) ==
    IF \E it \in orders[k].items : it.target = t
    THEN (CHOOSE it \in orders[k].items : it.target = t).quantity
    ELSE 0

RECURSIVE SumOrdered(_, _)
SumOrdered(K, t) ==
    IF K = {} THEN 0
    ELSE LET k == CHOOSE x \in K : TRUE
         IN OrderedQuantity(k, t) + SumOrdered(K \ {k}, t)

C4_TotalPrice ==
    \A k \in DOMAIN orders :
       orders[k].total_price =
          orders[k].subtotal - orders[k].discount + orders[k].shipping_cost

C4_Witness ==
    \E k \in DOMAIN orders :
       /\ orders[k].discount > 0
       /\ orders[k].status = "cancelled"
       /\ orders[k].total_price = orders[k].subtotal - 10 + orders[k].shipping_cost

\* C5: a cancel-order request that finds its order shipped, delivered or
\* cancelled, or paid, is answered with an error and changes no row: a
\* cancellation only goes on to its transaction for an order that is
\* pending or processing and not paid.
C5_CancelRejected ==
    [][ /\ \A r \in Workers :
             (req[r].pc = "idle" /\ req'[r].op = "cancel")
             => /\ orders[req'[r].oid].status \in {"pending", "processing"}
                /\ orders[req'[r].oid].payment_status # "paid"
        /\ Answered("cancel")
             => /\ resp'.code \in {400, 404}
                /\ UNCHANGED rows ]_vars

C5_Witness ==
    /\ resp.op = "cancel"
    /\ resp.code = 400
    /\ resp.why = "paid"
    /\ \E k \in DOMAIN orders :
          orders[k].payment_status = "paid" /\ orders[k].status = "pending"

IsCancelCommit(r) == Ends(r, "cancel", 200)

StatusRank == [pending |-> 1, processing |-> 2, shipped |-> 3, delivered |-> 4,
               cancelled |-> 5]

StatusStepAllowed(from, to) ==
    \/ from = to
    \/ to = "cancelled" /\ from \in {"pending", "processing"}
    \/ /\ from # "cancelled"
       /\ to # "cancelled"
       /\ StatusRank[from] < StatusRank[to]

C7_StatusMachine ==
    [][\A k \in DOMAIN orders :
         k \in DOMAIN orders'
         => StatusStepAllowed(orders[k].status, orders'[k].status)]_vars

\* C8 (as claimed): an order's payment_status only changes from unpaid to
\* paid, from unpaid to failed, or from paid to refunded.
PaymentStepAllowed(from, to) ==
    \/ from = to
    \/ from = "unpaid" /\ to \in {"paid", "failed"}
    \/ from = "paid" /\ to = "refunded"

C8_PaymentStatusMachine ==
    [][\A k \in DOMAIN orders :
         k \in DOMAIN orders'
         => PaymentStepAllowed(orders[k].payment_status,
                               orders'[k].payment_status)]_vars

-----------------------------------------------------------------------------
(* Properties of the addresses *)

DefaultBillingOf(u) ==
    {i \in DOMAIN addresses : addresses[i].user = u /\ addresses[i].is_default_billing}

DefaultShippingOf(u) ==
    {i \in DOMAIN addresses : addresses[i].user = u /\ addresses[i].is_default_shipping}

\* C9 (as claimed): after any creates and updates, at most one address of a
\* user has is_default_billing and at most one has is_default_shipping.
C9_OneDefaultPerUser ==
    \A u \in Users :
       /\ Cardinality(DefaultBillingOf(u)) <= 1
       /\ Cardinality(DefaultShippingOf(u)) <= 1

\* C10 (as claimed): no save of an address ends in a violation of the unique
\* constraints on the default flags.
C10_SaveNeverViolatesConstraint ==
    ~(resp.op \in {"address_create", "address_update"} /\ resp.why = "IntegrityError")

-----------------------------------------------------------------------------
(* Properties of the cart *)

\* This step is a request `op` that was answered.
Served(op) == nreq' = nreq + 1 /\ resp'.op = op

\* C11: an add or an update that is accepted leaves no item with a quantity
\* above the stock of its target, so a request whose quantity, alone or
\* summed with the quantity in the cart, exceeds the stock is rejected; a
\* rejected request changes no cart item; and no cart request, accepted or
\* rejected, changes a stock.
C11_CartRespectsStock ==
    [][ /\ stock' = stock
        /\ (Served("add") \/ Served("update"))
             => /\ resp'.code >= 400 => cartItems' = cartItems
                /\ resp'.code < 400
                     => \A a \in Actors, t \in Targets :
                           cartItems'[a][t] # cartItems[a][t]
                           => /\ cartItems'[a][t].qty <= stock[t]
                              /\ cartItems'[a][t].qty >= 1 ]_vars

\* An add was rejected for stock by a customer whose cart holds the whole
\* stock of a target.
C11_Witness ==
    /\ resp.op = "add"
    /\ resp.code = 400
    /\ resp.why = "stock"
    /\ \E t \in Targets : cartItems[resp.actor][t].qty = InitStock
    /\ \A t \in Targets : stock[t] = InitStock


\* C12 (as claimed): a merge of the guest cart into the user cart adds the
\* quantity of each guest item whose target the user cart holds to the user's
\* item, puts every other guest item in the user cart with its quantity and
\* price snapshot, and deletes the guest cart.
C12_MergeKeepsItems ==
    [][ (Served("cart") /\ resp'.why = "merged")
        => /\ \A t \in Targets :
                cartItems["s1"][t].qty > 0
                => IF cartItems["u1"][t].qty > 0
                   THEN cartItems'["u1"][t].qty =
                           cartItems["u1"][t].qty + cartItems["s1"][t].qty
                   ELSE cartItems'["u1"][t] = cartItems["s1"][t]
           /\ "s1" \notin carts'
           /\ cartItems'["s1"] = EmptyCart ]_vars


\* The effective price as the specification has it: the sale price when one
\* is set, the list price otherwise.
ListedEffectivePrice(t) ==
    IF catalog[t].sale_price # NoSalePrice THEN catalog[t].sale_price
    ELSE catalog[t].price

Max0(n) == IF n > 0 THEN n ELSE 0

RECURSIVE SumListedSavings(_, _)
SumListedSavings(a, S) ==
    IF S = {} THEN 0
    ELSE LET t == CHOOSE y \in S : TRUE
         IN Max0(catalog[t].price - ListedEffectivePrice(t)) * cartItems[a][t].qty
            + SumListedSavings(a, S \ {t})

\* C17 (as claimed): the total savings of every cart are the sum over its
\* items of max(0, list price - effective price) x quantity, and so are
\* never negative.
C17_TotalSavings ==
    \A a \in Actors :
       /\ GetTotalSavings(a) = SumListedSavings(a, CartTargets(a))
       /\ GetTotalSavings(a) >= 0


-----------------------------------------------------------------------------
(* Properties of the password reset *)

\* C13: with the requests served one after another, every token of a user
\* but the latest is used, so a user has at most one unused token, and a
\* token expires exactly one hour after it was issued.
C13_OneLiveToken ==
    /\ \A i, j \in DOMAIN tokens :
          (i < j /\ tokens[i].user = tokens[j].user) => tokens[i].used
    /\ \A u \in Users :
          Cardinality({i \in DOMAIN tokens : tokens[i].user = u /\ ~tokens[i].used}) <= 1
    /\ \A i \in DOMAIN tokens : tokens[i].expires_at = tokens[i].created_at + 1

\* A user asked twice: the first token is used, the second is not.
C13_Witness ==
    \E i, j \in DOMAIN tokens :
       /\ i < j
       /\ tokens[i].user = tokens[j].user
       /\ tokens[i].used
       /\ ~tokens[j].used
       /\ \A r \in Workers : authReq[r].pc = "idle"


\* A reset-password request of worker r sets the password in this step.
SetsPassword(r) == authReq[r].pc = "reset_save" /\ authReq'[r].pc = "idle"

\* C14: reset-password goes on to change the password only with a token
\* that exists, is unused and has not expired; a token that changes the
\* password has not changed it before, whatever the interleaving of the
\* requests, and afterwards it and every other token of the user are
\* used; a rejected request leaves the password and the tokens as they
\* were.
C14_TokenResetsOnce ==
    [][ /\ \A r \in Workers :
             (authReq[r].pc = "idle" /\ authReq'[r].pc = "reset_save") =>
                /\ authReq'[r].token \in DOMAIN tokens
                /\ ~tokens[authReq'[r].token].used
                /\ now < tokens[authReq'[r].token].expires_at
        /\ \A r \in Workers :
             SetsPassword(r) =>
                /\ tokens[authReq[r].token].resets = 0
                /\ \A i \in DOMAIN tokens' :
                      tokens'[i].user = authReq[r].user => tokens'[i].used
        /\ password' # password => \E r \in Workers : SetsPassword(r)
        /\ (Served("reset_password") /\ resp'.code = 400) =>
              UNCHANGED <<password, tokens>>
      ]_vars


\* C15: forgot-password answers an address that belongs to a user exactly
\* as it answers one that belongs to nobody, with the same code and
\* message, also when the mail cannot be sent: every answer is the one
\* the unknown address gets.
C15_ForgotPasswordUniform ==
    [][Served("forgot_password") =>
          /\ resp'.code = 200
          /\ resp'.why = "link_sent_if_account"]_vars


-----------------------------------------------------------------------------
(* Properties of the order's amounts and numbers *)

\* The request of worker r is committed as a new order in this step.
IsCreateCommit(r) == Ends(r, "create", 201)

SmallOrCapital == <<{"d", "D"}, {"h", "H"}, {"a", "A"}, {"k", "K"}, {"a", "A"}>>

\* The city is "dhaka" but for the case of its letters and for spaces and
\* tabs before and after it.
EqualsDhaka(city) ==
    \E before \in 0..Len(city) :
       /\ before + 5 <= Len(city)
       /\ \A i \in 1..Len(city) :
             IF i <= before \/ i > before + 5
             THEN city[i] \in {" ", "\t"}
             ELSE city[i] \in SmallOrCapital[i - before]

\* C16: the shipping cost of an order is the cost the caller gave when that
\* is positive; otherwise 60 when the shipping city is "dhaka", ignoring
\* case and surrounding whitespace, and 120 when it is not; for the saved
\* or new address of a user and for the inline address of a guest.
C16_ShippingCost ==
    [][\A r \in Workers :
          IsCreateCommit(r) =>
             orders'[req[r].oid].shipping_cost =
                IF req[r].calc.given > 0 THEN req[r].calc.given
                ELSE IF EqualsDhaka(req[r].calc.city) THEN 60
                ELSE 120]_vars

\* A guest's order that costs 60 to ship, and a user's order to the new
\* address "Dhaka N" that costs 120.
C16_Witness ==
    \E i, j \in DOMAIN orders :
       /\ ~IsAuthenticated(orders[i].owner)
       /\ orders[i].shipping_cost = 60
       /\ IsAuthenticated(orders[j].owner)
       /\ addresses[orders[j].shipping_address].city = DhakaNorth
       /\ orders[j].shipping_cost = 120


\* The orders that exist never share a number.
ExistingNumbersDiffer ==
    \A k, l \in DOMAIN orders :
       k # l => orders[k].order_number # orders[l].order_number

\* C18: with a single writer, over any sequence of order creations and
\* deletions, the order numbers grow strictly in the order of creation, so
\* that a number once given is never given again, also after a deletion,
\* and no two orders that exist have the same number.
C18_OrderNumbersGrow ==
    /\ \A i, j \in DOMAIN issued : i < j => issued[i] < issued[j]
    /\ ExistingNumbersDiffer


RECURSIVE SumSubtotals(_)
SumSubtotals(items) ==
    IF items = {} THEN 0
    ELSE LET it == CHOOSE x \in items : TRUE
         IN it.subtotal + SumSubtotals(items \ {it})

-----------------------------------------------------------------------------
(* Properties of the payment, the order's items and the owner *)

Snapshot(it) ==
    [product_title |-> it.product_title, variant_sku |-> it.variant_sku,
     variant_attributes |-> it.variant_attributes, quantity |-> it.quantity,
     unit_price |-> it.unit_price, subtotal |-> it.subtotal]

\* C22: when the staff change the price, the sale price, the title or the
\* stock of a product or variant, or delete it, every item of every order
\* keeps its product_title, variant_sku, variant_attributes, quantity,
\* unit_price and subtotal, and the order its subtotal and total_price; an
\* item's reference changes only by becoming null when its target is
\* deleted.
C22_OrderItemsAreSnapshots ==
    [][(Served("product_edit") \/ Served("product_delete")) =>
          /\ DOMAIN orders' = DOMAIN orders
          /\ \A k \in DOMAIN orders :
                /\ orders'[k].subtotal = orders[k].subtotal
                /\ orders'[k].total_price = orders[k].total_price
                /\ Cardinality(orders'[k].items) = Cardinality(orders[k].items)
                /\ \A it \in orders[k].items :
                      \E new \in orders'[k].items :
                         /\ Snapshot(new) = Snapshot(it)
                         /\ \/ new.target = it.target
                            \/ /\ new.target = Null
                               /\ catalog[it.target].exists
                               /\ ~catalog'[it.target].exists
      ]_vars

\* The variant of an ordered item was renamed and repriced and then
\* deleted: the item has the title and the price of the day of the order
\* and no reference.
C22_Witness ==
    /\ resp.op = "product_delete"
    /\ ~catalog["v1"].exists
    /\ catalog["v1"].title = "Renamed part"
    /\ catalog["v1"].price = 120
    /\ \E k \in DOMAIN orders :
          \E it \in orders[k].items :
             /\ it.target = Null
             /\ it.variant_sku = "SKU-V1"
             /\ it.product_title = "Bike part"
             /\ it.unit_price = 80
             /\ orders[k].subtotal = it.subtotal


\* C23: a create-order request with valid data that finds an item of the
\* cart with a quantity above the current stock of its target ends with the
\* 400 of a business rule that names the item and its available stock, and
\* not with an unexpected failure.
C23_InsufficientStockIs400 ==
    [][\A a \in Actors :
         ( /\ Arrives("create", a)
           /\ resp'.why # "invalid"
           /\ a \in carts
           /\ \E t \in Targets : /\ cartItems[a][t].qty > 0
                                  /\ cartItems[a][t].qty > stock[t] )
         => /\ resp'.code = 400
            /\ resp'.why = "insufficient_stock"]_vars


\* C24: whatever the order and the interleaving of an owner's cart
\* requests, the owner (a user, or the session of a guest) has at most one
\* Cart row, and get-or-create answers with that row and does not fail.
C24_OneCartPerOwner ==
    /\ \A a \in Actors : cartRows[a] <= 1
    /\ ~(resp.op = "cart" /\ resp.code = 500)


-----------------------------------------------------------------------------
(* Properties of the search, the stock and the categories *)

\* The limit clamped to 1..MaxLimit
Clamped(n) == IF n < 1 THEN 1 ELSE IF n > MaxLimit THEN MaxLimit ELSE n

\* The limit parameter of the last search is an integer
IntegerLimit == resp.limit # Missing /\ ParseInt(resp.limit).ok

\* C26: a search with an integer limit answers with no more results than the
\* limit clamped to 1..50 (a limit below 1 counts as 1, one above 50 as 50),
\* and a search with no limit or with one that is not a number is served as
\* with the limit 10.
C26_LimitIsClamped ==
    resp.op = "search" =>
        IF IntegerLimit
        THEN resp.count <= Clamped(ParseInt(resp.limit).value)
        ELSE resp.count = Sliced(resp.matches, DefaultLimit)

\* C26, as the code has it: a limit below 1 is served like a missing one,
\* with the limit 10; a limit from 1 on is cut at 50; a limit that is missing
\* or not a number is 10.
C26_LimitBelowOneIsDefault ==
    resp.op = "search" =>
        IF IntegerLimit /\ ParseInt(resp.limit).value >= 1
        THEN resp.count = Sliced(resp.matches, Clamped(ParseInt(resp.limit).value))
        ELSE resp.count = Sliced(resp.matches, DefaultLimit)

\* A search with a limit below 1 answered with ten results.
C26_Witness ==
    /\ resp.op = "search"
    /\ IntegerLimit
    /\ ParseInt(resp.limit).value < 1
    /\ resp.count = DefaultLimit


\* The orders that are not cancelled
Live == {k \in DOMAIN orders : orders[k].status # "cancelled"}

\* C27: with create-order and cancel-order requests served one after
\* another and no stock edit by an admin, the stock of every variant and of
\* every base product plus the quantities of the items that refer to it in
\* the orders not cancelled is the stock it began with, and no stock is
\* negative.
C27_StockIsConserved ==
    \A t \in Targets :
       /\ stock[t] >= 0
       /\ stock[t] + SumOrdered(Live, t) = InitStock

\* An order for the variant and the base product was cancelled, and the
\* quantities it took are back in the two stocks.
C27_Witness ==
    /\ resp.op = "cancel"
    /\ resp.code = 200
    /\ \E k \in DOMAIN orders : /\ orders[k].status = "cancelled"
                                /\ OrderedQuantity(k, "v1") > 0
                                /\ OrderedQuantity(k, "p2") > 0
    /\ stock["v1"] = InitStock
    /\ stock["p2"] = InitStock


\* C28: the stock an order took is given back at most once: whatever the
\* interleaving of cancel-order requests for one order, and whatever the
\* sequence of cancel-order requests and status updates of the dashboard,
\* what the cancellations of an order have added to the stock of a target
\* is no more than the quantity the order took of it.
C28_RestoredAtMostOnce ==
    \A k \in DOMAIN orders :
       \A t \in Targets : orders[k].restored[t] <= OrderedQuantity(k, t)


\* C29: a merge keeps the quantity of every target, of base products as of
\* variants: the user cart's quantity of a target after the merge is the
\* user cart's plus the guest cart's quantity of it before, so that a guest
\* item of product P neither raises the quantity of another product Q nor
\* is lost.
C29_MergeKeepsQuantityPerTarget ==
    [][ (Served("cart") /\ resp'.why = "merged")
        => \A t \in Targets :
              cartItems'["u1"][t].qty =
                 cartItems["u1"][t].qty + cartItems["s1"][t].qty ]_vars


\* The categories met on the way up from category c, in at most n steps
RECURSIVE Above(_, _)
Above(c, n) ==
    IF n = 0 \/ categories[c] = Null THEN {}
    ELSE {categories[c]} \cup Above(categories[c], n - 1)

\* The same in the store after the step
RECURSIVE AboveNext(_, _)
AboveNext(c, n) ==
    IF n = 0 \/ categories'[c] = Null THEN {}
    ELSE {categories'[c]} \cup AboveNext(categories'[c], n - 1)

\* C30: after any sequence of creations and edits of categories through
\* CategoryForm no category is its own ancestor: an edit that would make a
\* category its own parent or the child of one of its descendants is
\* rejected and changes nothing, and the walk up the ancestors in the check
\* ends every time.
C30_CategoriesAreAcyclic ==
    [][ /\ \A c \in DOMAIN categories' :
              c \notin AboveNext(c, Cardinality(DOMAIN categories'))
        /\ resp'.op = "category_edit"
           => /\ resp'.why # "endless"
              /\ (/\ resp'.parent \in DOMAIN categories
                  /\ \/ resp'.parent = resp'.pk
                     \/ resp'.pk \in Above(resp'.parent, Cardinality(DOMAIN categories)))
                 => /\ resp'.code = 200
                    /\ categories' = categories ]_vars

\* The staff tried to put a category under its own grandchild and were
\* refused.
C30_Witness ==
    /\ resp.op = "category_edit"
    /\ resp.why = "circular"
    /\ resp.parent # Null
    /\ categories[resp.parent] # Null
    /\ categories[resp.parent] # resp.pk
    /\ resp.pk \in Above(resp.parent, Cardinality(DOMAIN categories))

=============================================================================
